---- MODULE Spec2Model ----
(***************************************************************************)
(* Model of libcodechecker/log/option_parser.py: the rule tables, the      *)
(* OptionIterator cursor, arg_check's ordered handler list and the         *)
(* post-pass of parse_options.  Tokens are strings (the elements of        *)
(* shlex.split(args)); args is the token list after the compiler name.     *)
(* Python's None for result.lang is the empty tuple, a set value v is <<v>>.*)
(* The regular expressions are written out as prefix and equality tests;   *)
(* they agree with re.match on tokens that hold no newline after the first *)
(* character, which is what the vocabularies below draw from.              *)
(***************************************************************************)
EXTENDS Integers, Sequences, FiniteSets, TLC

VARIABLES compiler, args, it, result, pc, error, trace, notices

vars == <<compiler, args, it, result, pc, error, trace, notices>>

\* ------------------------------------------------------------------ bounds
MaxArgs == 3

\* ------------------------------------------------------- string primitives
StartsWith(s, p) == Len(s) >= Len(p) /\ SubSeq(s, 1, Len(p)) = p

Char(s, i) == SubSeq(s, i, i)

Contains(s, p) == \E i \in 1..(Len(s) - Len(p) + 1) : SubSeq(s, i, i + Len(p) - 1) = p

RFind(s, c) ==
    LET hits == {i \in 1..Len(s) : Char(s, i) = c}
    IN  IF hits = {} THEN 0 ELSE CHOOSE i \in hits : \A j \in hits : j <= i

AllCharsIn(s, cs) == \A i \in 1..Len(s) : Char(s, i) \in cs

Whitespace == {" ", "\t", "\n", "\r"}

RECURSIVE LStrip(_)
LStrip(s) == IF Len(s) > 0 /\ Char(s, 1) \in Whitespace THEN LStrip(Tail(s)) ELSE s

RECURSIVE RStrip(_)
RStrip(s) ==
    IF Len(s) > 0 /\ Char(s, Len(s)) \in Whitespace
    THEN RStrip(SubSeq(s, 1, Len(s) - 1)) ELSE s

Strip(s) == RStrip(LStrip(s))

RECURSIVE RStripQuote(_)
RStripQuote(s) ==
    IF Len(s) > 0 /\ Char(s, Len(s)) = "\""
    THEN RStripQuote(SubSeq(s, 1, Len(s) - 1)) ELSE s

\* opt.replace('"', r'"\"'): every double quote becomes quote, backslash, quote.
RECURSIVE EscapeQuotes(_)
EscapeQuotes(s) ==
    IF Len(s) = 0 THEN s
    ELSE (IF Char(s, 1) = "\"" THEN "\"\\\"" ELSE Char(s, 1)) \o EscapeQuotes(Tail(s))

\* os.path.splitext(p)[1]: the suffix from the last dot of the last path
\* component, unless that component has only leading dots before it.
SplitExt(p) ==
    LET sep == RFind(p, "/")
        dot == RFind(p, ".")
    IN  IF dot > sep /\ \E i \in (sep + 1)..(dot - 1) : Char(p, i) # "."
        THEN SubSeq(p, dot, Len(p)) ELSE ""

\* ------------------------------------------------------------------ tables
COMPILE_OPTION_MAP ==
    [k \in {"-nostdinc", "--sysroot", "--include", "-pedantic", "-G"} |->
        IF k \in {"--sysroot", "--include", "-G"} THEN 1 ELSE 0]

\* Each pattern of the list as <<prefix set, suffix may be empty>>, in list order.
COMPILE_OPTION_MAP_MERGED == <<
    [pre |-> {"-iquote"}, empty_ok |-> TRUE],
    [pre |-> {"-D", "-I", "-U"}, empty_ok |-> TRUE],
    [pre |-> {"-F"}, empty_ok |-> FALSE],
    [pre |-> {"-idirafter"}, empty_ok |-> TRUE],
    [pre |-> {"-isystem"}, empty_ok |-> TRUE],
    [pre |-> {"-imacros"}, empty_ok |-> TRUE],
    [pre |-> {"-include"}, empty_ok |-> TRUE],
    [pre |-> {"-isysroot"}, empty_ok |-> TRUE],
    [pre |-> {"-iprefix"}, empty_ok |-> TRUE],
    [pre |-> {"-iwithprefix"}, empty_ok |-> TRUE],
    [pre |-> {"-iwithprefixbefore"}, empty_ok |-> TRUE] >>

LINK_OPTION_MAP_MERGED == << [pre |-> {"-L"}, empty_ok |-> TRUE] >>

\* regexp.match anchors at the start only: a pattern without a trailing $ is
\* a prefix test.
COMPILE_OPTION_MAP_REGEX(v) ==
    \/ v \in {"-O", "-O1", "-O2", "-O3", "-Os"}
    \/ StartsWith(v, "-std=")
    \/ StartsWith(v, "-f")
    \/ StartsWith(v, "-m")
    \/ StartsWith(v, "-Wno-")
    \/ v \in {"-m32", "-m64"}
    \/ StartsWith(v, "--sysroot=")
    \/ StartsWith(v, "--gcc-toolchain=")

LINKER_OPTION_MAP_REGEX(v) ==
    \/ StartsWith(v, "-:L")
    \/ StartsWith(v, "-l")
    \/ StartsWith(v, "-shared")
    \/ StartsWith(v, "-static")

COMPILER_LINKER_OPTION_MAP ==
    [k \in {"-Xlinker", "-ftrapv-handler", "-lobjc", "-mios-simulator-version-min",
            "-miphoneos-version-min", "-mmacosx-version-min", "-no-pie",
            "-nostartfiles", "-nostdlib", "-pie", "-rdynamic", "-s", "-stdlib",
            "-target", "-v", "-write-strings"} |->
        IF k \in {"-Xlinker", "-ftrapv-handler", "-target"} THEN 1 ELSE 0]

LINKER_OPTION_MAP ==
    [k \in {"-framework", "-fobjc-link-runtime"} |-> IF k = "-framework" THEN 1 ELSE 0]

REPLACE_OPTIONS_MAP ==
    [k \in {"-mips32", "-mips64", "-mpowerpc", "-mpowerpc64"} |->
        CASE k = "-mips32" -> <<"-target", "mips", "-mips32">>
          [] k = "-mips64" -> <<"-target", "mips64", "-mips64">>
          [] k = "-mpowerpc" -> <<"-target", "powerpc">>
          [] k = "-mpowerpc64" -> <<"-target", "powerpc64">>]

IGNORED_OPTION_MAP ==
    [k \in {"-MT", "-MQ", "-MF", "-MJ", "-MM", "-MP", "-MD", "-MV", "-MMD",
            "-save-temps", "-install_name", "-exported_symbols_list",
            "-current_version", "-compatibility_version", "-init", "-e",
            "-seg1addr", "-bundle_loader", "-multiply_defined", "-sectorder",
            "--param", "-u", "--serialize-diagnostics", "-Werror",
            "-pedantic-errors"} |->
        IF k = "-sectorder" THEN 3
        ELSE IF k \in {"-MT", "-MQ", "-MF", "-MJ", "-install_name",
                       "-exported_symbols_list", "-current_version",
                       "-compatibility_version", "-init", "-e", "-seg1addr",
                       "-bundle_loader", "-multiply_defined", "--param", "-u",
                       "--serialize-diagnostics"} THEN 1
        ELSE 0]

IGNORED_OPTION_MAP_REGEX(v) ==
    \/ StartsWith(v, "-g")
    \/ StartsWith(v, "-flto")
    \/ StartsWith(v, "-mxl")
    \/ StartsWith(v, "-mfloat-gprs")

UnknownPrefixes ==
    {"-fallow-fetchr-insn", "-fcall-saved-", "-fcond-mismatch", "-fconserve-stack",
     "-fcrossjumping", "-fcse-follow-jumps", "-fcse-skip-blocks", "-ffixed-r2",
     "-fgcse-lm", "-fhoist-adjacent-loads", "-findirect-inlining",
     "-finline-limit", "-finline-local-initialisers", "-fipa-sra",
     "-fno-aggressive-loop-optimizations", "-fno-delete-null-pointer-checks",
     "-fno-jump-table", "-fno-strength-reduce", "-fno-toplevel-reorder",
     "-fno-unit-at-a-time", "-fno-var-tracking-assignments",
     "-fpartial-inlining", "-fpeephole2", "-fregmove", "-frename-registers",
     "-freorder-functions", "-frerun-cse-after-loop", "-fsched-spec",
     "-fthread-jumps", "-ftree-pre", "-ftree-switch-conversion",
     "-ftree-tail-merge", "-mabm", "-mno-abm", "-msdata", "-mno-sdata",
     "-mspe", "-mno-spe", "-mdsbt", "-mno-dsbt", "-mfixed-ssp",
     "-mno-fixed-ssp", "-mpointers-to-nested-functions",
     "-mno-pointers-to-nested-functions", "-mpcrel-func-addr",
     "-maccumulate-outgoing-args", "-mcall-aixdesc", "-mppa3-addr-bug",
     "-mtraceback=", "-mtext=", "-misa=", "-mapcs", "-mno-sched-prolog"}

UnknownExact ==
    {"-ffp", "-fr", "-fs", "-mstring", "-mno-string", "-mfix-cortex-m3-ldrd",
     "-mmultiple", "-msahf", "-mthumb-interwork", "-mupdate",
     "-fno-merge-const-bfstores", "-fno-ipa-sra", "-mno-thumb-interwork",
     "-DNDEBUG"}

UNKNOWN_OPTIONS_MAP_REGEX(v) ==
    \/ \E p \in UnknownPrefixes : StartsWith(v, p)
    \/ v \in UnknownExact

\* ActionType
LINK == 0
COMPILE == 1
PREPROCESS == 2
INFO == 3

\* get_language: the language of an extension, <<>> when it is not mapped.
get_language(extension) ==
    CASE extension = ".c" -> <<"c">>
      [] extension \in {".cp", ".cpp", ".cxx", ".txx", ".cc", ".C", ".ii"} -> <<"c++">>
      [] extension = ".m" -> <<"objective-c">>
      [] extension = ".mm" -> <<"objective-c++">>
      [] OTHER -> <<>>

\* The files a -filelist argument can name, with their lines.
FileSystem == ("srcs.txt" :> <<"a.c\n", " b.cpp \n">>)

\* OptionParserResult.__init__
OptionParserResult ==
    [action |-> COMPILE, compile_opts |-> <<>>, link_opts |-> <<>>, files |-> <<>>,
     arch |-> "", target |-> "", lang |-> <<>>, output |-> "", compiler |-> <<>>]

\* ---------------------------------------------------------- OptionIterator
\* A parse state st is [pos, result, err]: pos is the index in a of it.item,
\* err names the exception that left the handler ("" while none was raised).

\* next(it) inside a handler: past the last token the list iterator raises
\* StopIteration, which leaves arg_check and the for loop of parse_options.
ItNext(a, st) ==
    IF st.err # "" THEN st
    ELSE IF st.pos < Len(a) THEN [st EXCEPT !.pos = @ + 1]
    ELSE [st EXCEPT !.err = "StopIteration"]

\* target_list.append(v), target_list being result.<list>
ListAppend(st, list, v) ==
    IF st.err # "" THEN st ELSE [st EXCEPT !.result[list] = Append(@, v)]

\* ---------------------------------------------------------------- handlers
\* append_n that advances over the arguments without storing them.
RECURSIVE append_rest_skip(_, _, _, _)
append_rest_skip(a, st, list, size) ==
    IF size = 0 \/ st.err # "" THEN st
    ELSE append_rest_skip(a, ItNext(a, st), list, size - 1)

RECURSIVE append_rest(_, _, _, _)
append_rest(a, st, list, size) ==
    IF size = 0 \/ st.err # "" THEN st
    ELSE LET s1 == ItNext(a, st)
         IN  append_rest(a, IF s1.err = "" THEN ListAppend(s1, list, a[s1.pos]) ELSE s1,
                         list, size - 1)

append_n(a, st, list, size) ==
    append_rest(a, ListAppend(st, list, a[st.pos]), list, size)

RECURSIVE skip_n(_, _, _)
skip_n(a, st, size) ==
    IF size = 0 \/ st.err # "" THEN st ELSE skip_n(a, ItNext(a, st), size - 1)

\* re.match of one merged pattern: the captured group(1), <<>> when no match.
MergedGroup(pat, v) ==
    IF \E p \in pat.pre : StartsWith(v, p) /\ (pat.empty_ok \/ Len(v) > Len(p))
    THEN LET p == CHOOSE q \in pat.pre : StartsWith(v, q)
         IN  << SubSeq(v, Len(p) + 1, Len(v)) >>
    ELSE <<>>

\* Index of the first pattern of the table that matches v, 0 when none does.
MergedFirst(table, v) ==
    LET hits == {i \in 1..Len(table) : MergedGroup(table[i], v) # <<>>}
    IN  IF hits = {} THEN 0 ELSE CHOOSE i \in hits : \A j \in hits : i <= j

append_merged(a, st, table, list) ==
    LET g == MergedGroup(table[MergedFirst(table, a[st.pos])], a[st.pos])
        tmp == a[st.pos]
    IN  IF g[1] = ""
        THEN LET s1 == ItNext(a, st)
             IN  IF s1.err = "" THEN ListAppend(s1, list, tmp \o a[s1.pos]) ELSE s1
        ELSE ListAppend(st, list, tmp)

RECURSIVE append_lines(_, _, _)
append_lines(st, list, lines) ==
    IF lines = <<>> THEN st
    ELSE append_lines(ListAppend(st, list, Strip(Head(lines))), list, Tail(lines))

append_from_file(a, st, list) ==
    LET s1 == ItNext(a, st)
    IN  IF s1.err # "" THEN s1
        ELSE IF a[s1.pos] \notin DOMAIN FileSystem THEN [s1 EXCEPT !.err = "IOError"]
        ELSE append_lines(s1, list, FileSystem[a[s1.pos]])

RECURSIVE append_items(_, _, _)
append_items(st, list, items) ==
    IF items = <<>> THEN st
    ELSE append_items(ListAppend(st, list, Head(items)), list, Tail(items))

append_replacement(a, st, list, items) ==
    ItNext(a, append_items(st, list, items))

\* set_attr with attr_value None: the value is the next token.
set_attr_next(a, st, attr_name) ==
    LET s1 == ItNext(a, st)
    IN  IF s1.err # "" THEN s1
        ELSE [s1 EXCEPT !.result[attr_name] =
                 IF attr_name = "lang" THEN << a[s1.pos] >> ELSE a[s1.pos]]

\* set_attr with a given attr_value.
set_attr_value(st, attr_name, attr_value) ==
    [st EXCEPT !.result[attr_name] = attr_value]

PreprocessRegex(v) ==
    \/ v = "-E"
    \/ /\ StartsWith(v, "-M")
       /\ AllCharsIn(SubSeq(v, 3, Len(v)), {"T", "|", "Q", "F", "J", "P", "V", "M"})

\* '^[^-].+': a first character other than -, then at least one more.
BareFileRegex(v) == Len(v) >= 2 /\ Char(v, 1) # "-" /\ Char(v, 2) # "\n"

NumRules == 19

\* The test each entry of arg_collection makes on the value it is called with.
Matches(k, v) ==
    CASE k = 1 -> v \in DOMAIN REPLACE_OPTIONS_MAP
      [] k = 2 -> UNKNOWN_OPTIONS_MAP_REGEX(v)
      [] k = 3 -> v \in DOMAIN IGNORED_OPTION_MAP
      [] k = 4 -> IGNORED_OPTION_MAP_REGEX(v)
      [] k = 5 -> v = "-x"
      [] k = 6 -> v = "-o"
      [] k = 7 -> v = "-arch"
      [] k = 8 -> v = "-c"
      [] k = 9 -> PreprocessRegex(v)
      [] k = 10 -> v = "-print-prog-name"
      [] k = 11 -> v \in DOMAIN COMPILE_OPTION_MAP
      [] k = 12 -> v \in DOMAIN COMPILER_LINKER_OPTION_MAP
      [] k = 13 -> LINKER_OPTION_MAP_REGEX(v)
      [] k = 14 -> COMPILE_OPTION_MAP_REGEX(v)
      [] k = 15 -> MergedFirst(COMPILE_OPTION_MAP_MERGED, v) # 0
      [] k = 16 -> MergedFirst(LINK_OPTION_MAP_MERGED, v) # 0
      [] k = 17 -> v \in DOMAIN LINKER_OPTION_MAP
      [] k = 18 -> v = "-filelist"
      [] k = 19 -> BareFileRegex(v)

\* What entry k of arg_collection does once its test has accepted it.item.
Effect(k, a, st) ==
    LET v == a[st.pos]
    IN  CASE k = 1 -> append_replacement(a, st, "compile_opts", REPLACE_OPTIONS_MAP[v])
          [] k = 2 -> st
          [] k = 3 -> skip_n(a, st, IGNORED_OPTION_MAP[v])
          [] k = 4 -> st
          [] k = 5 -> set_attr_next(a, st, "lang")
          [] k = 6 -> set_attr_next(a, st, "output")
          [] k = 7 -> set_attr_next(a, st, "arch")
          [] k = 8 -> set_attr_value(st, "action", COMPILE)
          [] k = 9 -> set_attr_value(st, "action", PREPROCESS)
          [] k = 10 -> set_attr_value(st, "action", INFO)
          [] k = 11 -> append_n(a, st, "compile_opts", COMPILE_OPTION_MAP[v])
          [] k = 12 -> append_n(a, st, "link_opts", COMPILER_LINKER_OPTION_MAP[v])
          [] k = 13 -> append_n(a, st, "link_opts", 0)
          [] k = 14 -> append_n(a, st, "compile_opts", 0)
          [] k = 15 -> append_merged(a, st, COMPILE_OPTION_MAP_MERGED, "compile_opts")
          [] k = 16 -> append_merged(a, st, LINK_OPTION_MAP_MERGED, "link_opts")
          [] k = 17 -> skip_n(a, st, LINKER_OPTION_MAP[v])
          [] k = 18 -> append_from_file(a, st, "files")
          [] k = 19 -> append_n(a, st, "files", 0)

\* One wrapped(value) call: [res, st].
Handler(k, a, st) ==
    IF Matches(k, a[st.pos]) THEN [res |-> TRUE, st |-> Effect(k, a, st)]
    ELSE [res |-> FALSE, st |-> st]

\* The handler loop without its early return: every entry is called.
RECURSIVE TryColl_all(_, _, _)
TryColl_all(k, a, st) ==
    IF k > NumRules THEN [st |-> st, rule |-> 0]
    ELSE LET h == Handler(k, a, st)
             r == TryColl_all(k + 1, a, h.st)
         IN  IF h.res /\ r.rule = 0 THEN [st |-> r.st, rule |-> k] ELSE r

\* The fall-through of the handler loop taking the next token with it.
RECURSIVE TryColl_swallow(_, _, _)
TryColl_swallow(k, a, st) ==
    IF k > NumRules THEN [st |-> ItNext(a, st), rule |-> 0]
    ELSE LET h == Handler(k, a, st)
         IN  IF h.res THEN [st |-> h.st, rule |-> k]
             ELSE TryColl_swallow(k + 1, a, h.st)

\* for coll in arg_collection: res = coll(it.item); if res: return True
RECURSIVE TryColl(_, _, _)
TryColl(k, a, st) ==
    IF k > NumRules THEN [st |-> st, rule |-> 0]
    ELSE LET h == Handler(k, a, st)
         IN  IF h.res THEN [st |-> h.st, rule |-> k] ELSE TryColl(k + 1, a, h.st)

\* arg_check(it, result): the state it leaves and the entry that returned
\* True (0: none did, and the token is logged as unhandled).
arg_check(a, st) == TryColl(1, a, st)

\* ---------------------------------------------------------------- post-pass
EscapeOpts(opts) == [i \in DOMAIN opts |->
                        IF Contains(opts[i], "\"") THEN EscapeQuotes(opts[i]) ELSE opts[i]]

FileLanguage(source_file) == get_language(RStripQuote(SplitExt(source_file)))

\* for source_file in files: ... break.  Index of the file the loop breaks
\* at, 0 when it runs to the end.
RECURSIVE ScanFiles(_, _)
ScanFiles(files, i) ==
    IF i > Len(files) THEN 0
    ELSE IF FileLanguage(files[i]) # <<>> THEN i
    ELSE ScanFiles(files, i + 1)

CompilerLang(comp, lang) == IF Contains(comp, "++") THEN <<"c++">> ELSE lang

\* The extension fallback applied even when lang is already set.
FileLang_override(files, src, lang) ==
    IF src # 0 THEN FileLanguage(files[src]) ELSE lang

FileLang(files, src, lang) ==
    IF src # 0 /\ lang = <<>> THEN FileLanguage(files[src]) ELSE lang

\* No downgrade to Link.
FinalAction_keep(is_source, action) == action

FinalAction(is_source, action) == IF ~is_source THEN LINK ELSE action

PostPassResult(comp, res) ==
    LET src == ScanFiles(res.files, 1)
    IN  [res EXCEPT !.compile_opts = EscapeOpts(@),
                    !.compiler = << comp >>,
                    !.lang = FileLang(res.files, src, CompilerLang(comp, @)),
                    !.action = FinalAction(src # 0, @)]

\* for it in OptionIterator(tokens[1:]): arg_check(it, result_map)
RECURSIVE ParseLoop(_, _)
ParseLoop(a, st) ==
    IF st.err # "" \/ st.pos = Len(a) THEN st
    ELSE ParseLoop(a, arg_check(a, [st EXCEPT !.pos = @ + 1]).st)

\* parse_options on compiler name comp and the following tokens a: the
\* exception that ended the call, or the returned result.
parse_options(comp, a) ==
    LET st == ParseLoop(a, [pos |-> 0, result |-> OptionParserResult, err |-> ""])
    IN  IF st.err # "" THEN [err |-> st.err]
        ELSE [err |-> "", result |-> PostPassResult(comp, st.result)]

\* ------------------------------------------------------------ state machine
Compilers == {"gcc", "g++"}

SeqUpTo(V, n) == UNION {[1..k -> V] : k \in 0..n}

InitWith(V) ==
    /\ compiler \in Compilers
    /\ args \in SeqUpTo(V, MaxArgs)
    /\ it = 0
    /\ result = OptionParserResult
    /\ pc = "loop"
    /\ error = ""
    /\ trace = <<>>
    /\ notices = 0

Dispatch == arg_check(args, [pos |-> it + 1, result |-> result, err |-> ""])

\* One iteration of the for loop of parse_options that returns normally.
ArgCheckStep ==
    /\ pc = "loop"
    /\ it < Len(args)
    /\ Dispatch.st.err = ""
    /\ it' = Dispatch.st.pos
    /\ result' = Dispatch.st.result
    /\ trace' = Append(trace, [idx |-> it + 1, rule |-> Dispatch.rule])
    /\ notices' = notices + (IF Dispatch.rule = 0 THEN 1 ELSE 0)
    /\ UNCHANGED <<compiler, args, pc, error>>

\* One iteration in which a handler raises: parse_options returns nothing.
ArgCheckAbort ==
    /\ pc = "loop"
    /\ it < Len(args)
    /\ Dispatch.st.err # ""
    /\ pc' = "failed"
    /\ error' = Dispatch.st.err
    /\ trace' = Append(trace, [idx |-> it + 1, rule |-> Dispatch.rule])
    /\ UNCHANGED <<compiler, args, it, result, notices>>

\* The for loop is exhausted: the rest of parse_options.
PostPass ==
    /\ pc = "loop"
    /\ it = Len(args)
    /\ result' = PostPassResult(compiler, result)
    /\ pc' = "done"
    /\ UNCHANGED <<compiler, args, it, error, trace, notices>>

Next == ArgCheckStep \/ ArgCheckAbort \/ PostPass

\* Token vocabularies the invocations are drawn from.
DispatchTokens ==
    {"-mips32", "-DNDEBUG", "-MM", "-g", "-lobjc", "-framework", "-Wfoobar",
     "x.c", "-x", "-I"}

MergeTokens ==
    {"-I", "-I/u", "/u", "-F/u", "-iwithprefixbefore/u", "-L", "-L/u",
     "x.c", "-c"}

ReplaceTokens == {"-mips32", "-mpowerpc", "-c", "x.c", "a", "-o", "-I/u"}

PostTokens ==
    {"-c", "-E", "-print-prog-name", "x.c", "a.cpp", "a.o", "y.c\"", "-x", "c",
     "objective-c"}

FileListTokens == {"-filelist", "srcs.txt", "nofile", "x.c", "-o"}

ExactTokens ==
    {"--sysroot", "--include", "-G", "-pedantic", "-nostdinc", "/u", "-g",
     "x.c", "-DA=\"b\""}

DropTokens ==
    {"-D", "NDEBUG", "-DNDEBUG", "-U", "-I", "-g", "-Werror", "-c", "x.c"}

Init == InitWith(DispatchTokens)
Spec == Init /\ [][Next]_vars

InitMerge == InitWith(MergeTokens)
SpecMerge == InitMerge /\ [][Next]_vars

InitReplace == InitWith(ReplaceTokens)
SpecReplace == InitReplace /\ [][Next]_vars

InitPost == InitWith(PostTokens)
SpecPost == InitPost /\ [][Next]_vars

InitFileList == InitWith(FileListTokens)
SpecFileList == InitFileList /\ [][Next]_vars

InitExact == InitWith(ExactTokens)
SpecExact == InitExact /\ [][Next]_vars

InitDrop == InitWith(DropTokens)
SpecDrop == InitDrop /\ [][Next]_vars

TruncTokens ==
    {"-F", "-iwithprefixbefore", "-I", "--sysroot", "-MT", "-sectorder", "-x", "x.c"}

InitTrunc == InitWith(TruncTokens)
SpecTrunc == InitTrunc /\ [][Next]_vars

UnknownTokens == {"-Wfoobar", "-F", "a", "x.c", "-c", "-o", "-mips32"}

InitUnknown == InitWith(UnknownTokens)
SpecUnknown == InitUnknown /\ [][Next]_vars

PreprocessTokens == {"-E", "-M", "-MM", "-MP", "-c", "x.c", "a.o", "-x"}

InitPreprocess == InitWith(PreprocessTokens)
SpecPreprocess == InitPreprocess /\ [][Next]_vars

ShadowTokens ==
    {"-framework", "-fobjc-link-runtime", "Cocoa", "x.c", "-mips32", "-Werror",
     "-pedantic", "-lobjc", "-G"}

InitShadow == InitWith(ShadowTokens)
SpecShadow == InitShadow /\ [][Next]_vars

\* ------------------------------------------------------------------ helpers
\* Token i was handed to arg_check (it was it.item when arg_check was called).
Dispatched(i) == \E j \in DOMAIN trace : trace[j].idx = i

\* A for-loop iteration is about to dispatch token it + 1.
AboutToDispatch == pc = "loop" /\ it < Len(args)

Elems(seq) == {seq[i] : i \in DOMAIN seq}

\* Number of following tokens the entry k takes as arguments of token v.
DeclaredArity(k, v) ==
    CASE k = 3 -> IGNORED_OPTION_MAP[v]
      [] k \in {5, 6, 7, 18} -> 1
      [] k = 11 -> COMPILE_OPTION_MAP[v]
      [] k = 12 -> COMPILER_LINKER_OPTION_MAP[v]
      [] k = 15 -> IF \E n \in 1..Len(COMPILE_OPTION_MAP_MERGED) :
                        v \in COMPILE_OPTION_MAP_MERGED[n].pre THEN 1 ELSE 0
      [] k = 16 -> IF v = "-L" THEN 1 ELSE 0
      [] k = 17 -> LINKER_OPTION_MAP[v]
      [] OTHER -> 0

ConsumedAsArg(j) ==
    \E n \in DOMAIN trace :
        /\ trace[n].idx < j
        /\ j <= trace[n].idx + DeclaredArity(trace[n].rule, args[trace[n].idx])

\* ------------------------------------------------------------------- claims
MergedPrefixes ==
    {"-iquote", "-D", "-I", "-U", "-F", "-idirafter", "-isystem", "-imacros",
     "-include", "-isysroot", "-iprefix", "-iwithprefix", "-iwithprefixbefore", "-L"}

SplitAt(a, i, n) ==
    SubSeq(a, 1, i - 1) \o << SubSeq(a[i], 1, n), SubSeq(a[i], n + 1, Len(a[i])) >>
        \o SubSeq(a, i + 1, Len(a))

\* C1: for every merged prefix P and value V, an invocation giving the option
\* as the one token PV and the same invocation giving it as the two tokens
\* P, V return the same result, whose target list holds the joined entry PV.
C1_MergeIdempotence ==
    pc = "done" =>
        \A i \in 1..Len(args) : \A P \in MergedPrefixes :
            (Dispatched(i) /\ StartsWith(args[i], P) /\ Len(args[i]) > Len(P)) =>
                /\ parse_options(compiler, SplitAt(args, i, Len(P)))
                       = [err |-> "", result |-> result]
                /\ EscapeQuotes(args[i]) \in
                       Elems(IF P = "-L" THEN result.link_opts ELSE result.compile_opts)

\* C2: dispatching a key of the replacement table appends exactly its
\* replacement sequence to compileOpts and moves the cursor past that one
\* token only, without failing the parse.
C2_ReplacementOneToken ==
    [][(AboutToDispatch /\ args[it + 1] \in DOMAIN REPLACE_OPTIONS_MAP) =>
          /\ pc' = "loop"
          /\ it' = it + 1
          /\ result'.compile_opts = result.compile_opts \o REPLACE_OPTIONS_MAP[args[it + 1]]
      ]_vars

\* First entry of arg_collection whose test accepts v, 0 when none does.
FirstMatch(v) ==
    LET hits == {k \in 1..NumRules : Matches(k, v)}
    IN  IF hits = {} THEN 0 ELSE CHOOSE k \in hits : \A j \in hits : k <= j

\* C3: every dispatched token is handled by the first rule, in declared
\* order, whose matcher accepts it, applied exactly once; no later rule
\* changes the result or the cursor.
C3_FirstMatchOnly ==
    [][AboutToDispatch =>
          LET k0 == FirstMatch(args[it + 1])
              st0 == [pos |-> it + 1, result |-> result, err |-> ""]
              s1 == IF k0 = 0 THEN st0 ELSE Effect(k0, args, st0)
          IN  /\ trace'[Len(trace')].rule = k0
              /\ IF s1.err = ""
                 THEN pc' = "loop" /\ it' = s1.pos /\ result' = s1.result
                 ELSE pc' = "failed"
      ]_vars

\* A token that several rules accept was dispatched, and only the first of
\* them acted: -DNDEBUG was dropped, never merged into compileOpts.
C3_Witness ==
    /\ pc = "done"
    /\ \E j \in DOMAIN trace :
          /\ args[trace[j].idx] = "-DNDEBUG"
          /\ trace[j].rule = 2
          /\ Matches(15, args[trace[j].idx])
    /\ "-DNDEBUG" \notin Elems(result.compile_opts)

SomeSource == \E i \in DOMAIN result.files : FileLanguage(result.files[i]) # <<>>

ActionFlagDispatched == \E j \in DOMAIN trace : trace[j].rule \in {8, 9, 10}

\* C4: a parse with no file of a recognized extension returns Link whatever
\* action flag was seen; one with a recognized file and no -c, preprocess or
\* info flag dispatched returns Compile.
C4_ActionFinalization ==
    pc = "done" =>
        /\ ~SomeSource => result.action = LINK
        /\ (SomeSource /\ ~ActionFlagDispatched) => result.action = COMPILE

C4_Witness ==
    /\ pc = "done"
    /\ \E j \in DOMAIN trace : trace[j].rule = 9
    /\ result.files # <<>>
    /\ ~SomeSource
    /\ result.action = LINK

StrippedLines(path) == [i \in DOMAIN FileSystem[path] |-> Strip(FileSystem[path][i])]

\* C5: dispatching -filelist followed by a readable path appends the file's
\* stripped lines to files, adds nothing to compileOpts or linkOpts, and
\* consumes the path without adding it to files.
C5_FileListInclusion ==
    [][(AboutToDispatch /\ it + 1 < Len(args) /\ args[it + 1] = "-filelist"
            /\ args[it + 2] \in DOMAIN FileSystem) =>
          /\ pc' = "loop"
          /\ it' = it + 2
          /\ result'.files = result.files \o StrippedLines(args[it + 2])
          /\ result'.compile_opts = result.compile_opts
          /\ result'.link_opts = result.link_opts
      ]_vars

\* C6: a parse in which -filelist is followed by a path that cannot be
\* opened aborts and returns no result.
C6_MissingFileListFatal ==
    pc = "done" =>
        ~ \E i \in 1..(Len(args) - 1) :
              Dispatched(i) /\ args[i] = "-filelist" /\ args[i + 1] \notin DOMAIN FileSystem

\* C7: dispatching a key K of the exact-match compile-option table with
\* arity N, followed by N tokens, appends K and those N tokens to compileOpts
\* in order, and dispatch resumes right after the last of them.
C7_ExactKeepsArguments ==
    [][(AboutToDispatch /\ args[it + 1] \in DOMAIN COMPILE_OPTION_MAP
            /\ it + 1 + COMPILE_OPTION_MAP[args[it + 1]] <= Len(args)) =>
          LET N == COMPILE_OPTION_MAP[args[it + 1]]
          IN  /\ pc' = "loop"
              /\ it' = it + 1 + N
              /\ result'.compile_opts = result.compile_opts \o SubSeq(args, it + 1, it + 1 + N)
              /\ result'.files = result.files
              /\ result'.link_opts = result.link_opts
      ]_vars

\* An arity-1 key was dispatched and its argument, itself an option another
\* rule would drop, was stored right after it.
C7_Witness ==
    /\ pc = "loop"
    /\ trace # <<>>
    /\ LET e == trace[Len(trace)]
           n == Len(result.compile_opts)
       IN  /\ args[e.idx] = "--sysroot"
           /\ it = e.idx + 1
           /\ args[it] = "-g"
           /\ n >= 2
           /\ SubSeq(result.compile_opts, n - 1, n) = <<"--sysroot", "-g">>

Bare(v) == Len(v) > 0 /\ Char(v, 1) # "-"

RECURSIVE BareTokens(_)
BareTokens(j) ==
    IF j > Len(args) THEN <<>>
    ELSE (IF Bare(args[j]) /\ ~ConsumedAsArg(j) THEN << args[j] >> ELSE <<>>)
             \o BareTokens(j + 1)

\* C8: in a completed parse, files lists, in order and once per occurrence,
\* the tokens that do not start with - and are not the argument of a
\* preceding option.
C8_BareTokensAreFiles ==
    pc = "done" => result.files = BareTokens(1)

DroppedOption(v) ==
    \/ UNKNOWN_OPTIONS_MAP_REGEX(v)
    \/ v \in DOMAIN IGNORED_OPTION_MAP
    \/ IGNORED_OPTION_MAP_REGEX(v)

\* C9: no entry of compileOpts or linkOpts of a completed parse is matched by
\* the unknown-option, ignored-option or ignored-regex tables.
C9_NoDroppedOptionStored ==
    pc = "done" =>
        \A v \in Elems(result.compile_opts) \cup Elems(result.link_opts) : ~DroppedOption(v)

XDispatches == {j \in DOMAIN trace : trace[j].rule = 5}

LastXValue ==
    LET j == CHOOSE n \in XDispatches : \A m \in XDispatches : m <= n
    IN  args[trace[j].idx + 1]

FirstSourceLang ==
    LET srcs == {i \in DOMAIN result.files : FileLanguage(result.files[i]) # <<>>}
    IN  FileLanguage(result.files[CHOOSE i \in srcs : \A j \in srcs : i <= j])

\* C10: lang is c++ when the compiler name contains ++; otherwise the value of
\* the -x flag if one was dispatched; otherwise the language of the first file
\* with a recognized extension; otherwise unset.
C10_LanguagePrecedence ==
    pc = "done" =>
        result.lang =
            IF Contains(compiler, "++") THEN <<"c++">>
            ELSE IF XDispatches # {} THEN << LastXValue >>
            ELSE IF SomeSource THEN FirstSourceLang
            ELSE <<>>

\* An explicit -x value survived a recognized source file of another language.
C10_Witness ==
    /\ pc = "done"
    /\ ~Contains(compiler, "++")
    /\ XDispatches # {}
    /\ SomeSource
    /\ FirstSourceLang # << LastXValue >>
    /\ result.lang = << LastXValue >>

\* Number of following tokens the option v needs, by the table that lists it.
NeededArgs(v) ==
    CASE v \in DOMAIN COMPILE_OPTION_MAP -> COMPILE_OPTION_MAP[v]
      [] v \in DOMAIN COMPILER_LINKER_OPTION_MAP -> COMPILER_LINKER_OPTION_MAP[v]
      [] v \in DOMAIN IGNORED_OPTION_MAP -> IGNORED_OPTION_MAP[v]
      [] v \in {"-x", "-o", "-arch"} -> 1
      [] v \in MergedPrefixes -> 1
      [] OTHER -> 0

\* C11: when an option that needs N >= 1 following tokens is dispatched with
\* fewer than N tokens left after it, the parse call aborts.
C11_TruncatedArgumentFatal ==
    [][(AboutToDispatch /\ NeededArgs(args[it + 1]) > Len(args) - (it + 1)) =>
          pc' = "failed"
      ]_vars

RemoveAt(a, i) == SubSeq(a, 1, i - 1) \o SubSeq(a, i + 1, Len(a))

\* C12: a dispatched token that no rule accepts changes no list, is logged
\* once, does not abort the call, and the pass goes on with the next token:
\* the outcome of the parse is that of the invocation without that token.
C12_UnknownTokenDropped ==
    [][/\ (AboutToDispatch /\ FirstMatch(args[it + 1]) = 0) =>
             /\ pc' = "loop"
             /\ it' = it + 1
             /\ result' = result
             /\ notices' = notices + 1
       /\ pc' \in {"done", "failed"} =>
             \A j \in DOMAIN trace' :
                 trace'[j].rule = 0 =>
                     parse_options(compiler, RemoveAt(args, trace'[j].idx))
                         = IF pc' = "done" THEN [err |-> "", result |-> result']
                           ELSE [err |-> error']
      ]_vars

\* -Wfoobar was dispatched, logged once and dropped, and the pass went on to
\* store a later file.
C12_Witness ==
    /\ pc = "done"
    /\ notices = 1
    /\ \E j \in DOMAIN trace :
          /\ trace[j].rule = 0
          /\ args[trace[j].idx] = "-Wfoobar"
          /\ j < Len(trace)
          /\ trace[Len(trace)].rule = 19
    /\ "-Wfoobar" \notin Elems(result.compile_opts) \cup Elems(result.link_opts)
                          \cup Elems(result.files)
    /\ result.files # <<>>

\* No -c and no -print-prog-name was dispatched after trace entry j.
NoLaterActionFlag(j) ==
    ~ \E n \in DOMAIN trace :
          n > j /\ args[trace[n].idx] \in {"-c", "-print-prog-name"}

\* C13: in a completed parse in which a token of the -E / -M* family was
\* dispatched, no -c or info flag was dispatched after it and files holds a
\* recognized source file, the action is Preprocess.
C13_PreprocessFamily ==
    pc = "done" =>
        \A j \in DOMAIN trace :
            (PreprocessRegex(args[trace[j].idx]) /\ NoLaterActionFlag(j) /\ SomeSource)
                => result.action = PREPROCESS

ExactKeys ==
    DOMAIN REPLACE_OPTIONS_MAP \cup DOMAIN IGNORED_OPTION_MAP
        \cup DOMAIN COMPILE_OPTION_MAP \cup DOMAIN COMPILER_LINKER_OPTION_MAP
        \cup DOMAIN LINKER_OPTION_MAP

\* The entry of arg_collection built on the exact-match table that lists v.
OwnRule(v) ==
    CASE v \in DOMAIN REPLACE_OPTIONS_MAP -> 1
      [] v \in DOMAIN IGNORED_OPTION_MAP -> 3
      [] v \in DOMAIN COMPILE_OPTION_MAP -> 11
      [] v \in DOMAIN COMPILER_LINKER_OPTION_MAP -> 12
      [] v \in DOMAIN LINKER_OPTION_MAP -> 17

\* C14: a dispatched key of an exact-match table is handled by the rule of
\* its own table; -framework and -fobjc-link-runtime by the linker-option
\* exact rule, so the key is not stored in compileOpts.
C14_NoExactKeyShadowed ==
    /\ \A j \in DOMAIN trace :
          args[trace[j].idx] \in ExactKeys =>
              trace[j].rule = OwnRule(args[trace[j].idx])
    /\ \A v \in DOMAIN LINKER_OPTION_MAP : v \notin Elems(result.compile_opts)

====
